---- MODULE Spec2Model ----
(***************************************************************************)
(* Model of notification_service/whatsapp_bridge.js: the relay between     *)
(* website visitors (socket.io sessions) and one operator reached through  *)
(* a WhatsApp connector (Baileys socket), and the HTTP route that sends    *)
(* notifications through the same connector.                               *)
(*                                                                         *)
(* State: the global messageMap, the connectors created by successive runs *)
(* of startWhatsApp, the visitor sessions with the listeners that were     *)
(* attached to them when they connected, the sends awaiting the connector, *)
(* and what the last handler emitted or answered.                          *)
(*                                                                         *)
(* Spec is the chat relay (connector lifecycle, visitor sessions, sends,   *)
(* inbound channel events).  ConnectorSpec is the connector lifecycle with *)
(* the HTTP route, which reads nothing but the connector.                  *)
(***************************************************************************)
EXTENDS Integers, Sequences, FiniteSets, TLC

\* ---------------------------------------------------------------- bounds
MaxSocks     == 2   \* Spec: connectors created (runs of startWhatsApp past line 33)
MaxSessions  == 2   \* visitor connections over the run
MaxMsgs      == 2   \* send_message events over the run
MaxBatch     == 2   \* messages carried by one messages.upsert event
MaxConnSocks == 4   \* ConnectorSpec: connectors created
MaxHttp      == 2   \* ConnectorSpec: POST /send-whatsapp requests over the run
MaxPhoneLen  == 2   \* ConnectorSpec: length of the generated phone strings

\* ------------------------------------------------------------- constants
None      == "none"
AdminJid  == "254754096684@s.whatsapp.net"
OtherJid  == "254700000000@s.whatsapp.net"
Suffix    == <<"@", "s", ".", "w", "h", "a", "t", "s", "a", "p", "p", ".", "n", "e", "t">>
LoggedOut == 401
NoStatus  == 0
StatusCodes == {LoggedOut, 408, 515, NoStatus}
ForeignId == 0
Banner    == "New Website Guest"
ErrorText == "Failed to send message. Please try again."

VARIABLES
  messageMap,    \* line 25: channel message id -> socket id
  socks,         \* connectors made by makeWASocket, in creation order
  startPending,  \* runs of startWhatsApp suspended at the await of line 33
  connected,     \* socket ids of the visitor sessions now connected
  listeners,     \* per session: how many io "connection" listeners ran for it
  nextSession,   \* next socket id socket.io hands out
  nextMsg,       \* number of the next send_message event
  nextId,        \* next message id the channel assigns
  inflight,      \* sends awaiting sock.sendMessage (line 134)
  idInfo,        \* history: for each assigned id, the send that obtained it
  errored,       \* history: send_message events answered with an error event
  purged,        \* history: ids the disconnect handlers deleted from messageMap
  lastEmits,     \* events emitted by the last handler that ran
  lastUpsert,    \* the messages.upsert event the last handler received, if any
  httpPending,   \* POST /send-whatsapp requests awaiting sock.sendMessage (line 72)
  nextReq,       \* number of the next HTTP request
  lastHttp,      \* the POST /send-whatsapp response the last handler produced, if any
  lastOp         \* what else the last handler did: its calls and its answer

relayVars == <<messageMap, connected, listeners, nextSession, nextMsg, nextId,
               inflight, idInfo, errored, purged>>
httpVars  == <<httpPending, nextReq>>
outVars   == <<lastEmits, lastUpsert, lastHttp, lastOp>>
vars == <<messageMap, socks, startPending, connected, listeners, nextSession,
          nextMsg, nextId, inflight, idInfo, errored, purged, lastEmits,
          lastUpsert, httpPending, nextReq, lastHttp, lastOp>>

NoUpsert == [sock |-> 0, messages |-> << >>, read |-> {}]
NoOp     == [kind |-> None]
NoHttp   == [req |-> 0, phone |-> << >>, sentTo |-> << >>, outcome |-> None,
             code |-> 0, status |-> None, method |-> None]
\* the handler emitted the events in e and did op
Output(e, op) == /\ lastEmits' = e
                 /\ lastUpsert' = NoUpsert
                 /\ lastHttp' = NoHttp
                 /\ lastOp' = op
\* no handler output besides the events in e
Emitted(e) == Output(e, NoOp)

Sessions == 1..MaxSessions

\* ------------------------------------------------------ correlation store
\* faulty variant: the id is recorded for the session that connected last
RecordForLatestSession(map, id, sid) ==
  [k \in (DOMAIN map) \cup {id} |-> IF k = id THEN nextSession - 1 ELSE map[k]]

\* faulty variant: the write is deferred to a later task that has not run
RecordNothing(map, id, sid) == map

\* messageMap[sentMsg.key.id] = socket.id
Record(map, id, sid) ==
  [k \in (DOMAIN map) \cup {id} |-> IF k = id THEN sid ELSE map[k]]

\* faulty variant: the disconnect handler empties the whole store
PurgeEverything(map, sid) == [k \in {} |-> sid]

\* Object.keys(messageMap).forEach(key => { if (messageMap[key] === socket.id) delete ... })
PurgeSession(map, sid) ==
  [k \in {j \in DOMAIN map : map[j] # sid} |-> map[k]]

\* ------------------------------------------------------ connector lifecycle
\* faulty variant: only the first closure is followed by a reconnect
ShouldReconnectOnce(status) == status # LoggedOut /\ Len(socks) < 2

\* faulty variant: every closure is followed by a reconnect
ShouldReconnectAlways(status) == TRUE

\* lastDisconnect.error?.output?.statusCode !== DisconnectReason.loggedOut
ShouldReconnect(status) == status # LoggedOut

\* the connector still in use by Baileys, 0 when there is none
LiveSock == IF Len(socks) > 0 /\ socks[Len(socks)].state = "live" THEN Len(socks) ELSE 0

\* The continuation of startWhatsApp after line 33: makeWASocket and the
\* registration of every listener and route on the new connector.
StartWhatsAppResume ==
  /\ startPending > 0
  /\ startPending' = startPending - 1
  /\ socks' = Append(socks, [state |-> "live", loggedOut |-> FALSE])
  /\ Emitted({})
  /\ UNCHANGED <<relayVars, httpVars>>

\* connection.update with connection === "close" on the connector in use;
\* startWhatsApp() runs up to its first await inside the handler.  (Updates
\* carrying a qr or connection === "open" only print.)
ConnectionClose(status, cap) ==
  /\ LiveSock > 0
  /\ (status # LoggedOut => Len(socks) < cap)
  /\ socks' = [socks EXCEPT ![LiveSock] = [state |-> "closed", loggedOut |-> (status = LoggedOut)]]
  /\ startPending' = IF ShouldReconnect(status) THEN startPending + 1 ELSE startPending
  /\ Emitted({})
  /\ UNCHANGED <<relayVars, httpVars>>

\* ------------------------------------------------------ realtime gateway
\* io "connection": every listener registered so far runs for the new socket
Connect ==
  /\ nextSession <= MaxSessions
  /\ connected' = connected \cup {nextSession}
  /\ listeners' = [s \in connected \cup {nextSession} |->
                     IF s = nextSession THEN Len(socks) ELSE listeners[s]]
  /\ nextSession' = nextSession + 1
  /\ Emitted({})
  /\ UNCHANGED <<messageMap, socks, startPending, nextMsg, nextId, inflight,
                 idInfo, errored, purged, httpVars>>

\* the purge loop run by each of n disconnect handlers in turn
RECURSIVE PurgeTimes(_, _, _)
PurgeTimes(map, sid, n) ==
  IF n = 0 THEN map ELSE PurgeTimes(PurgeSession(map, sid), sid, n - 1)

\* socket "disconnect": each attached listener purges the session's entries
Disconnect(s) ==
  /\ s \in connected
  /\ connected' = connected \ {s}
  /\ listeners' = [t \in connected \ {s} |-> listeners[t]]
  /\ messageMap' = PurgeTimes(messageMap, s, listeners[s])
  /\ purged' = purged \cup ((DOMAIN messageMap) \ (DOMAIN messageMap'))
  /\ Output({}, [kind |-> "disconnect", session |-> s, purges |-> listeners[s]])
  /\ UNCHANGED <<socks, startPending, nextSession, nextMsg, nextId, inflight,
                 idInfo, errored, httpVars>>

\* ------------------------------------------------ visitor -> operator path
\* the payload of a send_message event: an object with a text, or nothing
VisitorData == {[defined |-> TRUE, text |-> "hello"], [defined |-> FALSE, text |-> None]}

\* socket.emit("error", {message: ...}) of the listener attached by run g
ErrorEmit(s, g, n) ==
  [to |-> s, event |-> "error", text |-> ErrorText, from |-> None, via |-> g, cause |-> n]

\* socket "send_message": every attached listener runs its own handler, each
\* with the connector of the startWhatsApp run that registered it.  With no
\* payload, data.text throws inside the try and the catch emits the error.
SendMessage(s, payload) ==
  /\ s \in connected
  /\ nextMsg <= MaxMsgs
  /\ nextMsg' = nextMsg + 1
  /\ IF ~payload.defined
     THEN /\ Output({ErrorEmit(s, g, nextMsg) : g \in 1..listeners[s]},
                    [kind |-> "send_message", session |-> s, msg |-> nextMsg,
                     live |-> LiveSock, socks |-> {}])
          /\ errored' = IF listeners[s] > 0 THEN errored \cup {nextMsg} ELSE errored
          /\ UNCHANGED inflight
     ELSE /\ inflight' = inflight \cup
               {[session |-> s, sock |-> g, msg |-> nextMsg, text |-> <<Banner, payload.text>>] :
                  g \in 1..listeners[s]}
          /\ Output({}, [kind |-> "send_message", session |-> s, msg |-> nextMsg,
                         live |-> LiveSock, socks |-> 1..listeners[s]])
          /\ UNCHANGED errored
  /\ UNCHANGED <<messageMap, socks, startPending, connected, listeners, nextSession,
                 nextId, idInfo, purged, httpVars>>

\* what sock.sendMessage can do: a closed connector rejects
SendOutcomes(g) == IF socks[g].state = "live" THEN {"sent", "failed"} ELSE {"failed"}

\* the await of line 134 settles and the rest of the handler runs: the
\* continuation is one job of the event loop, so the write of line 140 is in
\* the same step as the resolution of the send
SendComplete(p, outcome) ==
  /\ p \in inflight
  /\ outcome \in SendOutcomes(p.sock)
  /\ inflight' = inflight \ {p}
  /\ IF outcome = "sent"
     THEN /\ messageMap' = Record(messageMap, nextId, p.session)
          /\ idInfo' = Append(idInfo, [session |-> p.session, sock |-> p.sock, msg |-> p.msg])
          /\ nextId' = nextId + 1
          /\ Emitted({})
          /\ UNCHANGED errored
     ELSE /\ Emitted({ErrorEmit(p.session, p.sock, p.msg)})
          /\ errored' = errored \cup {p.msg}
          /\ UNCHANGED <<messageMap, idInfo, nextId>>
  /\ UNCHANGED <<socks, startPending, connected, listeners, nextSession, nextMsg,
                 purged, httpVars>>

\* ------------------------------------------------ operator -> visitor path
\* line 26: the operator's address, here the default of line 30
AdminPhone == AdminJid

\* the three shapes of an inbound message the handler tells apart
Plain(o, t) ==
  [fromMe |-> o.fromMe, remoteJid |-> o.jid, conversation |-> t,
   hasExt |-> FALSE, extText |-> None, hasQuote |-> FALSE, stanzaId |-> ForeignId]
Extended(o, t) ==
  [fromMe |-> o.fromMe, remoteJid |-> o.jid, conversation |-> None,
   hasExt |-> TRUE, extText |-> t, hasQuote |-> FALSE, stanzaId |-> ForeignId]
Quoting(o, t, q) ==
  [fromMe |-> o.fromMe, remoteJid |-> o.jid, conversation |-> None,
   hasExt |-> TRUE, extText |-> t, hasQuote |-> TRUE, stanzaId |-> q]

Origins  == [fromMe : BOOLEAN, jid : {AdminJid, OtherJid}]
Operator == [fromMe |-> FALSE, jid |-> AdminJid]
\* what can be quoted: a message of another conversation, or one the channel
\* has already assigned an id to
Quotable == {ForeignId} \cup (1..(nextId - 1))
OperatorMsgs == {Plain(Operator, "yes"), Extended(Operator, "ok")}
                  \cup {Quoting(Operator, "ok", q) : q \in Quotable}
OtherMsgs == {Quoting(o, "ok", q) : o \in Origins \ {Operator}, q \in 1..(nextId - 1)}
InboundMsgs == OperatorMsgs \cup OtherMsgs
\* m.messages: one message of any kind, or several operator messages at once
Batches == {<<m>> : m \in InboundMsgs}
             \cup UNION {[1..n -> OperatorMsgs] : n \in 2..MaxBatch}

\* msg.message?.extendedTextMessage?.contextInfo?.stanzaId is defined
QuoteDefined(msg) == msg.hasExt /\ msg.hasQuote

\* msg.message.conversation || msg.message.extendedTextMessage?.text || ""
ReplyText(msg) ==
  IF msg.conversation \notin {None, ""} THEN msg.conversation
  ELSE IF msg.hasExt /\ msg.extText \notin {None, ""} THEN msg.extText
  ELSE ""

\* faulty variant: a reply quoting an unknown id goes to every visitor
RouteUnknownToAll(msg, map) ==
  IF QuoteDefined(msg)
  THEN IF msg.stanzaId \in DOMAIN map THEN {map[msg.stanzaId]} ELSE connected
  ELSE {}

\* faulty variant: a message without a quote goes to every visitor
RouteUnquotedToAll(msg, map) ==
  IF QuoteDefined(msg)
  THEN IF msg.stanzaId \in DOMAIN map THEN {map[msg.stanzaId]} ELSE {}
  ELSE connected

\* quoteId && messageMap[quoteId]: the rooms the reply is emitted to
Route(msg, map) ==
  IF QuoteDefined(msg) /\ msg.stanzaId \in DOMAIN map THEN {map[msg.stanzaId]} ELSE {}

\* const msg = m.messages[0]: the positions of m.messages the handler reads
ReadIndexes(batch) == {1}

\* faulty variant: the handler routes whoever wrote the message
UpsertEmitsNoOriginCheck(batch, map, g) ==
  UNION {{[to |-> room, event |-> "receive_message", text |-> ReplyText(batch[i]),
           from |-> "Admin", via |-> g, cause |-> i] : room \in Route(batch[i], map)} :
         i \in ReadIndexes(batch)}

\* the messages.upsert handler of connector g
UpsertEmits(batch, map, g) ==
  UNION {LET msg == batch[i] IN
         IF ~msg.fromMe /\ msg.remoteJid = AdminPhone
         THEN {[to |-> room, event |-> "receive_message", text |-> ReplyText(msg),
                from |-> "Admin", via |-> g, cause |-> i] : room \in Route(msg, map)}
         ELSE {} :
         i \in ReadIndexes(batch)}

\* messages.upsert on the connector in use
Upsert(batch) ==
  /\ LiveSock > 0
  /\ lastEmits' = UpsertEmits(batch, messageMap, LiveSock)
  /\ lastUpsert' = [sock |-> LiveSock, messages |-> batch, read |-> ReadIndexes(batch)]
  /\ lastHttp' = NoHttp
  /\ lastOp' = NoOp
  /\ UNCHANGED <<socks, startPending, relayVars, httpVars>>

\* ------------------------------------------------------------ HTTP ingress
LocalPhone == <<"0", "7", "1", "2", "3", "4", "5", "6", "7", "8">>
PlusPhone  == <<"+", "2", "5", "4", "7", "1", "2", "3", "4", "5", "6", "7", "8">>
BarePhone  == <<"2", "5", "4", "7", "1", "2", "3", "4", "5", "6", "7", "8">>
PhoneChars == {"0", "+", "7"}
\* req.body.phone: the three documented formats and every short string
Phones == {LocalPhone, PlusPhone, BarePhone}
            \cup UNION {[1..n -> PhoneChars] : n \in 0..MaxPhoneLen}
\* request bodies: a string phone, or a body whose phone is not a string
Bodies == {[isString |-> TRUE, phone |-> ph] : ph \in Phones}
            \cup {[isString |-> FALSE, phone |-> << >>]}

StartsWith(str, c) == Len(str) > 0 /\ str[1] = c

\* faulty variant: the "+" is stripped first and the "0" rule applied to the rest
FormattedPhoneCascading(phone) ==
  IF StartsWith(phone, "+")
  THEN IF StartsWith(Tail(phone), "0") THEN <<"2", "5", "4">> \o Tail(Tail(phone))
       ELSE Tail(phone)
  ELSE IF StartsWith(phone, "0") THEN <<"2", "5", "4">> \o Tail(phone)
  ELSE phone

\* lines 63-67
FormattedPhone(phone) ==
  IF StartsWith(phone, "0") THEN <<"2", "5", "4">> \o Tail(phone)
  ELSE IF StartsWith(phone, "+") THEN Tail(phone)
  ELSE phone

\* line 69
Jid(phone) == FormattedPhone(phone) \o Suffix

\* faulty variant: the catch answers without res.status(500)
HttpResponseNoStatus(outcome) ==
  IF outcome = "sent"
  THEN [code |-> 200, status |-> "success", method |-> "whatsapp"]
  ELSE [code |-> 200, status |-> "error", method |-> "whatsapp"]

\* lines 74 and 77-81
HttpResponse(outcome) ==
  IF outcome = "sent"
  THEN [code |-> 200, status |-> "success", method |-> "whatsapp"]
  ELSE [code |-> 500, status |-> "error", method |-> "whatsapp"]

\* what the framework answers by itself: no route yet (404), or the handler
\* threw before its try (no answer, or the framework's own 500)
FrameworkResponses(req, body) ==
  IF Len(socks) = 0
  THEN {[req |-> req, phone |-> body.phone, sentTo |-> << >>, outcome |-> None,
         code |-> 404, status |-> None, method |-> None]}
  ELSE {NoHttp,
        [req |-> req, phone |-> body.phone, sentTo |-> << >>, outcome |-> None,
         code |-> 500, status |-> None, method |-> None]}

\* POST /send-whatsapp up to the await of line 72.  Express runs the first
\* handler registered for the route, the one bound to the first connector.
HttpRequest(body) ==
  /\ nextReq <= MaxHttp
  /\ nextReq' = nextReq + 1
  /\ lastEmits' = {}
  /\ lastUpsert' = NoUpsert
  /\ lastOp' = NoOp
  /\ IF Len(socks) > 0 /\ body.isString
     THEN /\ httpPending' = httpPending \cup
               {[req |-> nextReq, phone |-> body.phone, sentTo |-> Jid(body.phone)]}
          /\ lastHttp' = NoHttp
     ELSE /\ lastHttp' \in FrameworkResponses(nextReq, body)
          /\ UNCHANGED httpPending
  /\ UNCHANGED <<socks, startPending, relayVars>>

\* the await of line 72 settles and the response is written
HttpComplete(p, outcome) ==
  /\ p \in httpPending
  /\ outcome \in SendOutcomes(1)
  /\ httpPending' = httpPending \ {p}
  /\ lastEmits' = {}
  /\ lastUpsert' = NoUpsert
  /\ lastOp' = NoOp
  /\ lastHttp' = [req |-> p.req, phone |-> p.phone, sentTo |-> p.sentTo,
                  outcome |-> outcome,
                  code |-> HttpResponse(outcome).code,
                  status |-> HttpResponse(outcome).status,
                  method |-> HttpResponse(outcome).method]
  /\ UNCHANGED <<socks, startPending, relayVars, nextReq>>

\* faulty variant: the count of every id ever recorded
MappedMessagesEverRecorded(map) == nextId - 1

\* Object.keys(messageMap).length
MappedMessages(map) == Cardinality(DOMAIN map)

\* GET /health: answered by the route the first run of startWhatsApp
\* registered, 404 before that
Health ==
  /\ Output({}, IF Len(socks) = 0
                THEN [kind |-> "health", code |-> 404, active |-> 0, mapped |-> 0]
                ELSE [kind |-> "health", code |-> 200,
                      active |-> Cardinality(connected),
                      mapped |-> MappedMessages(messageMap)])
  /\ UNCHANGED <<socks, startPending, relayVars, httpVars>>

Init ==
  /\ messageMap = << >>
  /\ socks = << >>
  /\ startPending = 1
  /\ connected = {}
  /\ listeners = << >>
  /\ nextSession = 1
  /\ nextMsg = 1
  /\ nextId = 1
  /\ inflight = {}
  /\ idInfo = << >>
  /\ errored = {}
  /\ purged = {}
  /\ lastOp = NoOp
  /\ lastEmits = {}
  /\ lastUpsert = NoUpsert
  /\ httpPending = {}
  /\ nextReq = 1
  /\ lastHttp = NoHttp

Next ==
  \/ StartWhatsAppResume
  \/ \E status \in StatusCodes : ConnectionClose(status, MaxSocks)
  \/ Connect
  \/ \E s \in Sessions : Disconnect(s)
  \/ \E s \in Sessions, d \in VisitorData : SendMessage(s, d)
  \/ \E p \in inflight, o \in {"sent", "failed"} : SendComplete(p, o)
  \/ \E batch \in Batches : Upsert(batch)
  \/ Health

Spec == Init /\ [][Next]_vars

ConnectorNext ==
  \/ StartWhatsAppResume
  \/ \E status \in StatusCodes : ConnectionClose(status, MaxConnSocks)
  \/ \E body \in Bodies : HttpRequest(body)
  \/ \E p \in httpPending, o \in {"sent", "failed"} : HttpComplete(p, o)

ConnectorSpec == Init /\ [][ConnectorNext]_vars

\* the event loop resumes a suspended startWhatsApp once its await settles
ConnectorLiveSpec == ConnectorSpec /\ WF_vars(StartWhatsAppResume)

\* ================================================================== claims
\* an inbound message that the operator wrote (not an echo, from the operator's address)
FromOperator(m) == ~m.fromMe /\ m.remoteJid = AdminJid
\* the text the operator typed
OperatorText(m) == IF m.hasExt THEN m.extText ELSE m.conversation
\* the receive_message events the last handler emitted for message i of its event
ReceivedFor(i) == {e \in lastEmits : e.event = "receive_message" /\ e.cause = i}
Upserted == lastUpsert.sock > 0
Inbound(i) == lastUpsert.messages[i]

\* C1: every inbound operator message that quotes an identifier mapped to
\* session S makes the messages.upsert handler emit exactly one
\* receive_message event, to S, with from "Admin" and the operator's text,
\* and nothing to any other session.
C1_EveryQuotedReplyRouted ==
  \A i \in DOMAIN lastUpsert.messages :
    (FromOperator(Inbound(i)) /\ QuoteDefined(Inbound(i))
       /\ Inbound(i).stanzaId \in DOMAIN messageMap)
    => /\ Cardinality(ReceivedFor(i)) = 1
       /\ \A e \in ReceivedFor(i) :
            /\ e.to = messageMap[Inbound(i).stanzaId]
            /\ e.from = "Admin"
            /\ e.text = OperatorText(Inbound(i))

\* C2: with two sessions sending concurrently, every identifier the channel
\* assigned is mapped to the session that issued its send and to no other:
\* an entry of the store never names another session, and the entry is there
\* as long as the issuing session is connected.
C2_CorrelationsNeverCollide ==
  \A id \in DOMAIN idInfo :
    /\ id \in DOMAIN messageMap => messageMap[id] = idInfo[id].session
    /\ idInfo[id].session \in connected => id \in DOMAIN messageMap

\* C2 witness: two sessions hold one entry each, and the sends completed in
\* the opposite order of their send_message events (both were in flight).
C2_Witness ==
  \E a \in DOMAIN messageMap, b \in DOMAIN messageMap :
    /\ a < b
    /\ messageMap[a] # messageMap[b]
    /\ idInfo[a].msg > idInfo[b].msg

\* C3: when session S disconnects, every entry whose value is S is removed
\* and every other entry stays as it was; no entry appears.
C3_PurgeRemovesOnlyOwnEntries ==
  [][\A s \in Sessions :
       (s \in connected /\ s \notin connected')
       => /\ \A id \in DOMAIN messageMap :
               IF messageMap[id] = s
               THEN id \notin DOMAIN messageMap'
               ELSE id \in DOMAIN messageMap' /\ messageMap'[id] = messageMap[id]
          /\ DOMAIN messageMap' \subseteq DOMAIN messageMap]_vars

\* C3 witness: an identifier assigned to a session was purged by its
\* disconnect while an older entry of another, connected session remains.
C3_Witness ==
  \E a \in DOMAIN idInfo, b \in DOMAIN messageMap :
    /\ a \notin DOMAIN messageMap
    /\ idInfo[a].session \notin connected
    /\ b < a
    /\ messageMap[b] \in connected

\* C4: an inbound operator message quoting an identifier that is not in the
\* store (never recorded, or purged) causes no receive_message event and no
\* error event to any session.
C4_UnknownQuoteIsDropped ==
  Upserted =>
    \A i \in DOMAIN lastUpsert.messages :
      (FromOperator(Inbound(i)) /\ QuoteDefined(Inbound(i))
         /\ Inbound(i).stanzaId \notin DOMAIN messageMap)
      => /\ ReceivedFor(i) = {}
         /\ \A e \in lastEmits : e.event # "error"

\* C4 witness: the operator quoted an identifier that had been recorded and
\* then purged, visitors are connected, and nothing was emitted.
C4_Witness ==
  /\ Upserted
  /\ FromOperator(Inbound(1)) /\ QuoteDefined(Inbound(1))
  /\ Inbound(1).stanzaId \in (DOMAIN idInfo) \ (DOMAIN messageMap)
  /\ connected # {}
  /\ lastEmits = {}

\* C5: an inbound operator message without quote metadata causes no
\* receive_message event to any session, whatever the store holds.
C5_UnquotedIsDropped ==
  Upserted =>
    \A i \in DOMAIN lastUpsert.messages :
      (FromOperator(Inbound(i)) /\ ~QuoteDefined(Inbound(i))) => ReceivedFor(i) = {}

\* C5 witness: the operator sent a plain message while the store held an
\* entry of a connected visitor, and nothing was emitted.
C5_Witness ==
  /\ Upserted
  /\ FromOperator(Inbound(1)) /\ ~QuoteDefined(Inbound(1))
  /\ \E id \in DOMAIN messageMap : messageMap[id] \in connected
  /\ lastEmits = {}

\* C6: for every visitor message, a failed send to the operator means an
\* error event and no correlation for that message, and an error event is
\* emitted for a message only when no correlation was recorded for it: no
\* send_message event has both an error event and a correlation.
C6_ErrorOnlyWithoutCorrelation ==
  \A id \in DOMAIN idInfo : idInfo[id].msg \notin errored

\* C7: a correlation recorded before a closure that was not a logout is
\* still in the store once the connector is re-established, and every
\* operator reply that arrives on the new connector and quotes it is
\* delivered to the originating session if that session is still connected.
C7_RepliesRoutedAfterReconnect ==
  lastUpsert.sock > 1 =>
    \A i \in DOMAIN lastUpsert.messages :
      (FromOperator(Inbound(i)) /\ QuoteDefined(Inbound(i))
         /\ Inbound(i).stanzaId \in DOMAIN idInfo
         /\ idInfo[Inbound(i).stanzaId].sock < lastUpsert.sock
         /\ idInfo[Inbound(i).stanzaId].session \in connected)
      => /\ Inbound(i).stanzaId \in DOMAIN messageMap
         /\ \E e \in ReceivedFor(i) : e.to = idInfo[Inbound(i).stanzaId].session

\* connector g was closed for a reason other than a logout
ClosedNotLoggedOut(g) ==
  Len(socks) >= g /\ socks[g].state = "closed" /\ ~socks[g].loggedOut
\* some connector was closed because the channel session was logged out
FatalAuth == \E g \in DOMAIN socks : socks[g].state = "closed" /\ socks[g].loggedOut

\* C8: after any closure of a connector whose reason is not a logout, a new
\* connector is eventually started, however many closures came before.
C8_ReconnectsAfterEveryClosure ==
  \A g \in 1..MaxConnSocks : ClosedNotLoggedOut(g) ~> (Len(socks) > g)

\* C8 witness: two connectors in a row were closed without a logout and a
\* third one was started.
C8_Witness ==
  Len(socks) >= 3 /\ ClosedNotLoggedOut(1) /\ ClosedNotLoggedOut(2)

\* C9: after a closure whose reason is a logout no connector is ever
\* started again: no run of startWhatsApp is pending, no connector is in
\* use, and this never changes.
C9_NoReconnectAfterLogout ==
  /\ [](FatalAuth => (startPending = 0 /\ LiveSock = 0))
  /\ [][FatalAuth => (FatalAuth' /\ Len(socks') = Len(socks))]_vars

\* C9 witness: a re-established connector was logged out and a later send
\* request was answered with a failure.
C9_Witness ==
  /\ FatalAuth
  /\ Len(socks) >= 2
  /\ lastHttp.outcome = "failed"

\* C10: POST /send-whatsapp answers 500 with status "error" and method
\* "whatsapp" exactly when the connector send failed, answers status
\* "success" and method "whatsapp" exactly when it succeeded, and a send
\* that succeeded was addressed to the normalized phone of the request.
C10_HttpAnswerFollowsSend ==
  lastHttp.req > 0 =>
    /\ (lastHttp.code = 500 /\ lastHttp.status = "error" /\ lastHttp.method = "whatsapp")
         <=> (lastHttp.outcome = "failed")
    /\ (lastHttp.status = "success" /\ lastHttp.method = "whatsapp")
         <=> (lastHttp.outcome = "sent")
    /\ lastHttp.outcome = "sent" => lastHttp.sentTo = FormattedPhone(lastHttp.phone) \o Suffix

\* C10 witness: a request with a local number (leading 0) was sent and
\* answered with success.
C10_Witness ==
  /\ lastHttp.outcome = "sent"
  /\ lastHttp.status = "success"
  /\ lastHttp.phone = LocalPhone
  /\ Head(lastHttp.sentTo) = "2"

\* the address the stated rules give for a phone string
CanonicalAddress == <<"2", "5", "4", "7", "1", "2", "3", "4", "5", "6", "7", "8">> \o Suffix
RuleAddress(ph) ==
  IF ph # << >> /\ Head(ph) = "0" THEN (<<"2", "5", "4">> \o SubSeq(ph, 2, Len(ph))) \o Suffix
  ELSE IF ph # << >> /\ Head(ph) = "+" THEN SubSeq(ph, 2, Len(ph)) \o Suffix
  ELSE ph \o Suffix

\* C11: the address a request is sent to is its phone with a leading "0"
\* replaced by "254", otherwise with a leading "+" removed, otherwise
\* unchanged (only the first matching rule applies), followed by
\* "@s.whatsapp.net"; "0712345678", "+254712345678" and "254712345678" all
\* give "254712345678@s.whatsapp.net".
C11_AddressNormalization ==
  \A p \in httpPending :
    /\ p.sentTo = RuleAddress(p.phone)
    /\ p.phone \in {LocalPhone, PlusPhone, BarePhone} => p.sentTo = CanonicalAddress

\* C11 witness: a request with the local format and one with "+0" are
\* pending, the second addressed to "0@s.whatsapp.net" (the "0" rule was not
\* applied after the "+" rule).
C11_Witness ==
  \E p \in httpPending, q \in httpPending :
    /\ p.phone = LocalPhone /\ p.sentTo = CanonicalAddress
    /\ q.phone = <<"+", "0">> /\ q.sentTo = <<"0">> \o Suffix

\* the last handler was GET /health and its route answered
HealthAnswered == lastOp.kind = "health" /\ lastOp.code = 200

\* C12: at every GET /health request the reported mapped_messages is the
\* number of entries in the store, which is the number of recorded
\* identifiers that have not been purged, and the request changes neither
\* the store nor the set of connections.
C12_HealthCountsLiveCorrelations ==
  /\ [](HealthAnswered =>
          /\ lastOp.mapped = Cardinality(DOMAIN messageMap)
          /\ lastOp.mapped = Cardinality((DOMAIN idInfo) \ purged))
  /\ [][lastOp'.kind = "health" =>
          (messageMap' = messageMap /\ connected' = connected)]_vars

\* C12 witness: /health reported one entry while another recorded identifier
\* had been purged, with a session connected.
C12_Witness ==
  /\ HealthAnswered
  /\ lastOp.mapped = 1
  /\ purged # {}
  /\ lastOp.active >= 1

\* the sessions whose disconnect handler has run
Disconnected == {s \in 1..(nextSession - 1) : s \notin connected}

\* C13: once the disconnect handler of session S has run, the store holds no
\* entry whose value is S, whatever the interleaving of sends, send
\* completions and disconnects: every entry belongs to a connected session.
C13_NoEntryOfDisconnectedSession ==
  \A id \in DOMAIN messageMap : messageMap[id] \notin Disconnected

\* C14: an inbound message that is not from the operator's address, or that
\* the bridge wrote itself (fromMe), causes no receive_message event to any
\* session and no change to the store, even when it quotes a mapped
\* identifier.
C14_OnlyOperatorMessagesRouted ==
  /\ [](Upserted =>
          \A i \in DOMAIN lastUpsert.messages :
            ~FromOperator(Inbound(i)) => ReceivedFor(i) = {})
  /\ [][(lastUpsert'.sock > 0
           /\ \E i \in DOMAIN lastUpsert'.messages : ~FromOperator(lastUpsert'.messages[i]))
         => messageMap' = messageMap]_vars

\* C14 witness: an echo of the bridge's own message in the operator's
\* conversation quoted an identifier mapped to a connected session, and
\* nothing was emitted.
C14_Witness ==
  /\ Upserted
  /\ Inbound(1).fromMe /\ Inbound(1).remoteJid = AdminJid
  /\ QuoteDefined(Inbound(1))
  /\ Inbound(1).stanzaId \in DOMAIN messageMap
  /\ messageMap[Inbound(1).stanzaId] \in connected
  /\ lastEmits = {}

\* message i of the last event is an operator reply quoting an identifier
\* that is mapped to a connected session
RoutableReply(i) ==
  /\ FromOperator(Inbound(i)) /\ QuoteDefined(Inbound(i))
  /\ Inbound(i).stanzaId \in DOMAIN messageMap
  /\ messageMap[Inbound(i).stanzaId] \in connected

\* C15: processing an inbound message leaves the store unchanged, and
\* operator replies that quote the same identifier, however many, are each
\* delivered to the session the identifier is mapped to while that session
\* is connected.
C15_RepliesArePureLookups ==
  /\ [][lastUpsert'.sock > 0 => messageMap' = messageMap]_vars
  /\ [](Upserted =>
          \A i \in DOMAIN lastUpsert.messages, j \in DOMAIN lastUpsert.messages :
            (RoutableReply(i) /\ RoutableReply(j)
               /\ Inbound(i).stanzaId = Inbound(j).stanzaId)
            => \E e \in ReceivedFor(i), f \in ReceivedFor(j) :
                 e.to = messageMap[Inbound(i).stanzaId] /\ f.to = e.to)

\* identifier x is written in the store for the session whose send it names
WrittenForSender(x) ==
  x \in DOMAIN messageMap /\ messageMap[x] = idInfo[x].session

\* C16: the correlation of identifier X is written before any inbound
\* message quoting X can be processed: in every state the event loop can
\* take a handler from, an identifier whose send has completed is in the
\* store for the sending session unless a disconnect purged it, so every
\* messages.upsert handler that looks such an identifier up finds it.
C16_RecordedBeforeAnyReply ==
  /\ \A x \in (DOMAIN idInfo) \ purged : WrittenForSender(x)
  /\ Upserted =>
       \A i \in DOMAIN lastUpsert.messages :
         (QuoteDefined(Inbound(i)) /\ Inbound(i).stanzaId \in (DOMAIN idInfo) \ purged)
         => WrittenForSender(Inbound(i).stanzaId)

\* C16 witness: the operator's reply to the most recently assigned
\* identifier was processed while another send was still pending, and it
\* reached the sender.
C16_Witness ==
  /\ Upserted
  /\ FromOperator(Inbound(1)) /\ QuoteDefined(Inbound(1))
  /\ Inbound(1).stanzaId = nextId - 1
  /\ Inbound(1).stanzaId \in DOMAIN idInfo
  /\ inflight # {}
  /\ \E e \in lastEmits : e.to = idInfo[Inbound(1).stanzaId].session

\* C17: on each visitor disconnect the purge of the session's correlations
\* is invoked exactly once, for every session and whatever number of runs
\* of startWhatsApp preceded the session's connection.
C17_PurgeInvokedExactlyOnce ==
  lastOp.kind = "disconnect" => lastOp.purges = 1

\* C18: every message of an inbound event is processed, in arrival order:
\* the handler reads every position of m.messages.
C18_EveryInboundMessageProcessed ==
  Upserted => lastUpsert.read = DOMAIN lastUpsert.messages

\* C19: once the connector is re-established after a closure that was not a
\* logout, a send_message of any connected session is issued on the
\* re-established connector and not on a closed one.
C19_SendsUseReestablishedConnector ==
  (lastOp.kind = "send_message" /\ lastOp.live > 1)
    => lastOp.socks \subseteq {lastOp.live}

\* C20: a send_message event causes at most one send attempt to the
\* operator and at most one correlation, also after connector reconnects.
C20_AtMostOneSendPerEvent ==
  /\ \A p \in inflight, q \in inflight : p.msg = q.msg => p = q
  /\ \A a \in DOMAIN idInfo, b \in DOMAIN idInfo : idInfo[a].msg = idInfo[b].msg => a = b
  /\ lastOp.kind = "send_message" => Cardinality(lastOp.socks) <= 1
====
